---- MODULE Spec2Model ----
(***************************************************************************)
(* A model of src/server/aesdsocket.c: the acceptor (main), the signal     *)
(* handler, the connection handler threads, the shared data file guarded    *)
(* by file_mutex and the thread registry guarded by threads_mutex.         *)
(*                                                                         *)
(* Bytes are small integers: NL is '\n', and every other byte a client c   *)
(* sends is the number c, so that the owner of each byte of the data file  *)
(* can be told.  Thread identities: the handler of connection c is thread  *)
(* c, the main thread is MainThread, NoThread is "no owner".               *)
(***************************************************************************)
EXTENDS Integers, Sequences, FiniteSets, TLC

(* ---- bounds of the model ---- *)
NumConns == 3       \* connections a run may accept
MaxServed == 2      \* connections made where the server stays below its capacity
MaxStream == 2      \* bytes a client sends in Spec
ShutStream == 1     \* bytes a client sends in SpecShutdown
MaxSignals == 2     \* termination requests a run may deliver
MaxFaults == 1

\* the clock stops after MaxTime ticks
MaxTime == 5

\* adds to the ring buffer since its init, the sizes of the entries added,
\* and the offsets looked up
MaxAdds == 5
MaxEntrySize == 2
MaxOffset == 7      \* I/O failures the environment may inject in a run

(* ---- program constants, scaled down to keep the state space finite ---- *)
\* RECV_BUFFER_SIZE is 1024 in the source: recv reads at most
\* RECV_BUFFER_SIZE - 1 bytes, read() of the file at most RECV_BUFFER_SIZE.
RECV_BUFFER_SIZE == 3
\* MAX_PACKET_SIZE is 10 * 1024 * 1024 in the source; as there, it is not
\* RECV_BUFFER_SIZE times a power of two, so the growth is capped by it.
MAX_PACKET_SIZE == 5
\* MAX_CONCURRENT_THREADS is 10 in the source.
MAX_CONCURRENT_THREADS == 2

\* the period of the timestamp task, in ticks of the clock (10 seconds)
TIMESTAMP_INTERVAL == 2

\* the byte that stands for the text "timestamp:<date and time>"
TS == 9

\* the capacity of the ring buffer (scaled down)
AESDCHAR_MAX_WRITE_OPERATIONS_SUPPORTED == 3

Offsets == 0..(AESDCHAR_MAX_WRITE_OPERATIONS_SUPPORTED - 1)

\* a zeroed struct aesd_buffer_entry: buffptr NULL (0), size 0
NoEntry == [buffptr |-> 0, size |-> 0]

NULL == -1

NoFind == -1

NL == 0
Conns == 1..NumConns
NoThread == 0
MainThread == NumConns + 1
Slots == 0..(MAX_CONCURRENT_THREADS - 1)

VARIABLES
    shutdown_requested, \* the sig_atomic_t flag, 0 or 1
    server_fd,          \* the global: "fd" while set, "none" for -1
    lsock,              \* the listening socket: "listening", "shutdown", "closed"
    file_mutex,         \* owner of file_mutex, NoThread when free
    threads_mutex,      \* owner of threads_mutex, NoThread when free
    thread_pool,        \* Slots -> [active, thread]
    active_thread_count,
    log,                \* the bytes of DATA_FILE
    fileExists,         \* whether DATA_FILE exists
    mpc,                \* where the main thread is
    wi,                 \* wait_for_all_threads' loop index i
    m_client,           \* main's client_fd between accept and register_thread
    exit_status,        \* "none" until main returns
    hpc,                \* where each connection handler is
    packet_buffer,      \* bytes accumulated (packet_size is its length)
    buffer_capacity,
    recv_buffer,        \* current_pos..current_pos+remaining of the chunk
    fd_open,            \* whether the handler's client_fd is still open
    close_calls,        \* history: per handler, its calls of close(client_fd)
    roff,               \* read_and_send_file: offset in the file
    rbuf,               \* read_and_send_file: bytes read, not yet sent
    cstate,             \* client: "new", "open", "closed" (it sent FIN)
    sock,               \* bytes the client sent, not yet received
    replies,            \* per client, one record per read_and_send_file call
    sent,               \* history: all the bytes the client sent
    appended,           \* history: per handler, its successful appends
    fail,               \* history: an I/O failure hit this connection
    rejected,           \* history: the handler took the size-exceeded exit
    faults,             \* history: failures injected so far
    signals,            \* history: termination requests delivered
    lateSignal,         \* history: a request was delivered during teardown
    unlinks,            \* history: calls of unlink(DATA_FILE)
    joins,              \* history: per handler, pthread_join calls returned
    \* the timestamp task
    tpc,                \* where the timestamp task is
    now,                \* the clock, in ticks
    wake_time,          \* the wake time of the task's current wait
    fired,              \* history: timed waits that ended by timeout, flag unset
    \* struct aesd_circular_buffer and the last call of find_entry_offset
    entry,              \* entry[i]: the stored [buffptr, size]
    in_offs,
    out_offs,
    full,
    added,              \* history: every entry added since init, in order
    find_offset,        \* char_offset of the last find call, NoFind before it
    find_rtn,           \* its return value: an index of entry, or NULL
    entry_offset_byte_rtn, \* the caller's *entry_offset_byte_rtn after it
    stale_byte_rtn      \* history: the caller's value before the call

mainVars == <<mpc, wi, m_client, exit_status, server_fd, lsock>>
regVars == <<threads_mutex, thread_pool, active_thread_count, joins>>
fileVars == <<file_mutex, log, fileExists, unlinks>>
connVars == <<hpc, packet_buffer, buffer_capacity, recv_buffer, fd_open,
              close_calls,
              roff, rbuf, replies, appended, fail, rejected>>
clientVars == <<cstate, sock, sent>>
sigVars == <<shutdown_requested, signals, lateSignal>>
tsVars == <<tpc, now, wake_time, fired>>
ringVars == <<entry, in_offs, out_offs, full, added, find_offset, find_rtn,
              entry_offset_byte_rtn, stale_byte_rtn>>
vars == <<mainVars, regVars, fileVars, connVars, clientVars, sigVars, faults,
          tsVars, ringVars>>

(* ---- sequences of bytes ---- *)
Min(a, b) == IF a < b THEN a ELSE b

Prefix(s, n) == SubSeq(s, 1, n)

Drop(s, n) == SubSeq(s, n + 1, Len(s))

IsPrefix(p, s) == Len(p) <= Len(s) /\ Prefix(s, Len(p)) = p

IsSuffix(p, s) == Len(p) <= Len(s) /\ Drop(s, Len(s) - Len(p)) = p

\* mutant of NewlinePos: memchr searches remaining - 1 bytes
NewlinePos_Short(s) ==
    IF \E i \in 1..(Len(s) - 1) : s[i] = NL
    THEN CHOOSE i \in 1..(Len(s) - 1) : s[i] = NL /\ \A j \in 1..(i - 1) : s[j] # NL
    ELSE 0

\* memchr(current_pos, '\n', remaining): the 1-based place of the first
\* newline of s, 0 when there is none
NewlinePos(s) ==
    IF \E i \in 1..Len(s) : s[i] = NL
    THEN CHOOSE i \in 1..Len(s) : s[i] = NL /\ \A j \in 1..(i - 1) : s[j] # NL
    ELSE 0

\* every byte stream of at most n bytes a client c can send
Streams(c, n) == UNION {[1..k -> {NL, c}] : k \in 0..n}

TeardownPcs == {"m_wait", "m_join", "m_close", "m_unlink", "m_return"}

Running == mpc # "m_exited"

Init ==
    /\ shutdown_requested = 0
    /\ server_fd = "fd"
    /\ lsock = "listening"
    /\ file_mutex = NoThread
    /\ threads_mutex = NoThread
    /\ thread_pool = [i \in Slots |-> [active |-> FALSE, thread |-> NoThread]]
    /\ active_thread_count = 0
    /\ log = <<>>
    /\ fileExists = FALSE
    /\ mpc = "m_loop"
    /\ wi = 0
    /\ m_client = NoThread
    /\ exit_status = "none"
    /\ hpc = [c \in Conns |-> "h_none"]
    /\ packet_buffer = [c \in Conns |-> <<>>]
    /\ buffer_capacity = [c \in Conns |-> RECV_BUFFER_SIZE]
    /\ recv_buffer = [c \in Conns |-> <<>>]
    /\ fd_open = [c \in Conns |-> FALSE]
    /\ close_calls = [c \in Conns |-> 0]
    /\ roff = [c \in Conns |-> 0]
    /\ rbuf = [c \in Conns |-> <<>>]
    /\ cstate = [c \in Conns |-> "new"]
    /\ sock = [c \in Conns |-> <<>>]
    /\ replies = [c \in Conns |-> <<>>]
    /\ sent = [c \in Conns |-> <<>>]
    /\ tpc = "t_wait"
    /\ now = 0
    /\ wake_time = TIMESTAMP_INTERVAL
    /\ fired = 0
    /\ entry = [i \in Offsets |-> NoEntry]
    /\ in_offs = 0
    /\ out_offs = 0
    /\ full = FALSE
    /\ added = <<>>
    /\ find_offset = NoFind
    /\ find_rtn = NULL
    /\ entry_offset_byte_rtn = 0
    /\ stale_byte_rtn = 0
    /\ appended = [c \in Conns |-> <<>>]
    /\ fail = [c \in Conns |-> FALSE]
    /\ rejected = [c \in Conns |-> FALSE]
    /\ faults = 0
    /\ signals = 0
    /\ lateSignal = FALSE
    /\ unlinks = 0
    /\ joins = [c \in Conns |-> 0]

(* ======================= signal_handler ======================= *)

\* mutant of signal_handler: the handler removes the data file itself
signal_handler_Unlinks(t) ==
    /\ Running
    /\ signals < MaxSignals
    /\ IF t = MainThread THEN TRUE ELSE hpc[t] \notin {"h_none", "h_done"}
    /\ signals' = signals + 1
    /\ lateSignal' = (lateSignal \/ mpc \in TeardownPcs)
    /\ shutdown_requested' = 1
    /\ lsock' = IF server_fd # "none" /\ lsock = "listening"
                THEN "shutdown" ELSE lsock
    /\ unlinks' = unlinks + 1
    /\ fileExists' = FALSE
    /\ log' = <<>>
    /\ mpc' = IF t = MainThread /\ mpc = "m_accept" THEN "m_wait" ELSE mpc
    /\ hpc' = IF t \in Conns /\ hpc[t] = "h_recv"
              THEN [hpc EXCEPT ![t] = "h_loop"] ELSE hpc
    /\ UNCHANGED <<wi, m_client, exit_status, server_fd, regVars, file_mutex,
                   packet_buffer, buffer_capacity, recv_buffer, fd_open, close_calls, roff,
                   rbuf, replies, appended, fail, rejected, clientVars, faults,
                   tsVars, ringVars>>

\* mutant of signal_handler: the handler toggles the flag
signal_handler_Toggles(t) ==
    /\ Running
    /\ signals < MaxSignals
    /\ IF t = MainThread THEN TRUE ELSE hpc[t] \notin {"h_none", "h_done"}
    /\ signals' = signals + 1
    /\ lateSignal' = (lateSignal \/ mpc \in TeardownPcs)
    /\ shutdown_requested' = 1 - shutdown_requested
    /\ lsock' = IF server_fd # "none" /\ lsock = "listening"
                THEN "shutdown" ELSE lsock
    /\ mpc' = IF t = MainThread /\ mpc = "m_accept" THEN "m_wait" ELSE mpc
    /\ hpc' = IF t \in Conns /\ hpc[t] = "h_recv"
              THEN [hpc EXCEPT ![t] = "h_loop"] ELSE hpc
    /\ UNCHANGED <<wi, m_client, exit_status, server_fd, regVars, fileVars,
                   packet_buffer, buffer_capacity, recv_buffer, fd_open, close_calls, roff,
                   rbuf, replies, appended, fail, rejected, clientVars, faults,
                   tsVars, ringVars>>

\* SIGINT or SIGTERM, run on thread t (the kernel picks any thread): sets
\* the flag, shuts the listening socket down when server_fd is set, and the
\* blocking call t was in, if any, returns EINTR (sa_flags has no
\* SA_RESTART): recv's EINTR is "continue" to the loop test, accept's EINTR
\* with the flag set is "break".  A thread in pthread_mutex_lock or
\* pthread_join is not woken.
signal_handler(t) ==
    /\ Running
    /\ signals < MaxSignals
    /\ IF t = MainThread THEN TRUE ELSE hpc[t] \notin {"h_none", "h_done"}
    /\ signals' = signals + 1
    /\ lateSignal' = (lateSignal \/ mpc \in TeardownPcs)
    /\ shutdown_requested' = 1
    /\ lsock' = IF server_fd # "none" /\ lsock = "listening"
                THEN "shutdown" ELSE lsock
    /\ mpc' = IF t = MainThread /\ mpc = "m_accept" THEN "m_wait" ELSE mpc
    /\ hpc' = IF t \in Conns /\ hpc[t] = "h_recv"
              THEN [hpc EXCEPT ![t] = "h_loop"] ELSE hpc
    /\ UNCHANGED <<wi, m_client, exit_status, server_fd, regVars, fileVars,
                   packet_buffer, buffer_capacity, recv_buffer, fd_open, close_calls, roff,
                   rbuf, replies, appended, fail, rejected, clientVars, faults,
                   tsVars, ringVars>>

(* ======================= main ======================= *)

\* while (!shutdown_requested) at the head of the server loop
main_loop ==
    /\ mpc = "m_loop"
    /\ mpc' = IF shutdown_requested = 1 THEN "m_wait" ELSE "m_can"
    /\ UNCHANGED <<wi, m_client, exit_status, server_fd, lsock, regVars,
                   fileVars, connVars, clientVars, sigVars, tsVars, ringVars, faults>>

\* mutant of can_accept_new_connection: <= for <
can_accept_new_connection_OffByOne ==
    /\ mpc = "m_can"
    /\ threads_mutex = NoThread
    /\ mpc' = IF active_thread_count <= MAX_CONCURRENT_THREADS
              THEN "m_accept" ELSE "m_loop"
    /\ UNCHANGED <<wi, m_client, exit_status, server_fd, lsock, regVars,
                   fileVars, connVars, clientVars, sigVars, tsVars, ringVars, faults>>

\* can_accept_new_connection, and the usleep + continue when the pool is full
can_accept_new_connection ==
    /\ mpc = "m_can"
    /\ threads_mutex = NoThread
    /\ mpc' = IF active_thread_count < MAX_CONCURRENT_THREADS
              THEN "m_accept" ELSE "m_loop"
    /\ UNCHANGED <<wi, m_client, exit_status, server_fd, lsock, regVars,
                   fileVars, connVars, clientVars, sigVars, tsVars, ringVars, faults>>

\* accept returns the connection of client c, which sends the stream s and
\* then either stays connected (closes = FALSE) or closes its end: the FIN
\* follows the data, and reaches the handler when recv returns 0
main_accept(c, s, closes) ==
    /\ mpc = "m_accept"
    /\ lsock = "listening"
    /\ cstate[c] = "new"
    /\ \A d \in Conns : d < c => cstate[d] # "new"
    /\ cstate' = [cstate EXCEPT ![c] = IF closes THEN "closed" ELSE "open"]
    /\ sock' = [sock EXCEPT ![c] = s]
    /\ sent' = [sent EXCEPT ![c] = s]
    /\ fd_open' = [fd_open EXCEPT ![c] = TRUE]
    /\ m_client' = c
    /\ mpc' = "m_create"
    /\ UNCHANGED <<close_calls, wi, exit_status, server_fd, lsock, regVars, fileVars, hpc,
                   packet_buffer, buffer_capacity, recv_buffer, roff, rbuf,
                   replies, appended, fail, rejected, sigVars, tsVars, ringVars, faults>>

\* accept fails on the listening socket the signal handler shut down; errno
\* is not EINTR, so the failure is logged and the loop continues
main_accept_fail ==
    /\ mpc = "m_accept"
    /\ lsock = "shutdown"
    /\ mpc' = "m_loop"
    /\ UNCHANGED <<wi, m_client, exit_status, server_fd, lsock, regVars,
                   fileVars, connVars, clientVars, sigVars, tsVars, ringVars, faults>>

\* accept fails with a transient errno (EAGAIN, EWOULDBLOCK) and no
\* termination request: nothing is logged, continue
main_accept_transient ==
    /\ mpc = "m_accept"
    /\ lsock = "listening"
    /\ mpc' = "m_loop"
    /\ UNCHANGED <<wi, m_client, exit_status, server_fd, lsock, regVars,
                   fileVars, connVars, clientVars, sigVars, tsVars, ringVars,
                   faults>>

\* accept fails with another errno (EMFILE, ENFILE, ENOMEM, EBADF) and no
\* termination request: the failure is logged, continue
main_accept_fatal ==
    /\ mpc = "m_accept"
    /\ lsock = "listening"
    /\ faults < MaxFaults
    /\ faults' = faults + 1
    /\ mpc' = "m_loop"
    /\ UNCHANGED <<wi, m_client, exit_status, server_fd, lsock, regVars,
                   fileVars, connVars, clientVars, sigVars, tsVars, ringVars>>

\* pthread_create: the handler thread starts with its locals initialised
main_create ==
    /\ mpc = "m_create"
    /\ hpc' = [hpc EXCEPT ![m_client] = "h_start"]
    /\ packet_buffer' = [packet_buffer EXCEPT ![m_client] = <<>>]
    /\ buffer_capacity' = [buffer_capacity EXCEPT ![m_client] = RECV_BUFFER_SIZE]
    /\ mpc' = "m_register"
    /\ UNCHANGED <<wi, m_client, exit_status, server_fd, lsock, regVars,
                   fileVars, recv_buffer, fd_open, close_calls, roff, rbuf, replies,
                   appended, fail, rejected, clientVars, sigVars, tsVars, ringVars, faults>>

FreeSlots == {i \in Slots : ~thread_pool[i].active}

FirstOf(S) == CHOOSE i \in S : \A j \in S : i <= j

\* register_thread(thread_id, ...), called by main after pthread_create
register_thread ==
    /\ mpc = "m_register"
    /\ threads_mutex = NoThread
    /\ IF FreeSlots # {}
       THEN /\ thread_pool' = [thread_pool EXCEPT ![FirstOf(FreeSlots)] =
                                  [active |-> TRUE, thread |-> m_client]]
            /\ active_thread_count' = active_thread_count + 1
       ELSE UNCHANGED <<thread_pool, active_thread_count>>
    /\ m_client' = NoThread
    /\ mpc' = "m_loop"
    /\ UNCHANGED <<wi, exit_status, server_fd, lsock, threads_mutex, joins,
                   fileVars, connVars, clientVars, sigVars, tsVars, ringVars, faults>>

(* ---- cleanup_resources ---- *)

\* wait_for_all_threads: pthread_mutex_lock(&threads_mutex), i = 0
wait_for_all_threads_lock ==
    /\ mpc = "m_wait"
    /\ threads_mutex = NoThread
    /\ threads_mutex' = MainThread
    /\ wi' = 0
    /\ mpc' = "m_join"
    /\ UNCHANGED <<m_client, exit_status, server_fd, lsock, thread_pool,
                   active_thread_count, joins, fileVars, connVars, clientVars,
                   sigVars, tsVars, ringVars, faults>>

\* mutant of wait_for_all_threads_join: the slot is cleared without
\* waiting for the thread to return
wait_for_all_threads_join_NoWait ==
    /\ mpc = "m_join"
    /\ wi < MAX_CONCURRENT_THREADS
    /\ IF thread_pool[wi].active
       THEN /\ joins' = [joins EXCEPT ![thread_pool[wi].thread] = @ + 1]
            /\ thread_pool' = [thread_pool EXCEPT ![wi].active = FALSE]
       ELSE UNCHANGED <<joins, thread_pool>>
    /\ wi' = wi + 1
    /\ UNCHANGED <<mpc, m_client, exit_status, server_fd, lsock, threads_mutex,
                   active_thread_count, fileVars, connVars, clientVars,
                   sigVars, tsVars, ringVars, faults>>

\* one iteration of the loop: an active slot's thread is joined (the call
\* returns once that thread has returned) and the slot cleared
wait_for_all_threads_join ==
    /\ mpc = "m_join"
    /\ wi < MAX_CONCURRENT_THREADS
    /\ IF thread_pool[wi].active
       THEN /\ hpc[thread_pool[wi].thread] = "h_done"
            /\ joins' = [joins EXCEPT ![thread_pool[wi].thread] = @ + 1]
            /\ thread_pool' = [thread_pool EXCEPT ![wi].active = FALSE]
       ELSE UNCHANGED <<joins, thread_pool>>
    /\ wi' = wi + 1
    /\ UNCHANGED <<mpc, m_client, exit_status, server_fd, lsock, threads_mutex,
                   active_thread_count, fileVars, connVars, clientVars,
                   sigVars, tsVars, ringVars, faults>>

\* after the loop: active_thread_count = 0, unlock
wait_for_all_threads_unlock ==
    /\ mpc = "m_join"
    /\ wi = MAX_CONCURRENT_THREADS
    /\ active_thread_count' = 0
    /\ threads_mutex' = NoThread
    /\ mpc' = "m_close"
    /\ UNCHANGED <<wi, m_client, exit_status, server_fd, lsock, thread_pool,
                   joins, fileVars, connVars, clientVars, sigVars, tsVars, ringVars, faults>>

\* if (server_fd != -1) { close(server_fd); server_fd = -1; }
cleanup_close ==
    /\ mpc = "m_close"
    /\ IF server_fd # "none"
       THEN server_fd' = "none" /\ lsock' = "closed"
       ELSE UNCHANGED <<server_fd, lsock>>
    /\ mpc' = "m_unlink"
    /\ UNCHANGED <<wi, m_client, exit_status, regVars, fileVars, connVars,
                   clientVars, sigVars, tsVars, ringVars, faults>>

\* unlink(DATA_FILE); ENOENT is not an error
cleanup_unlink ==
    /\ mpc = "m_unlink"
    /\ unlinks' = unlinks + 1
    /\ fileExists' = FALSE
    /\ log' = <<>>
    /\ mpc' = "m_return"
    /\ UNCHANGED <<wi, m_client, exit_status, server_fd, lsock, regVars,
                   file_mutex, connVars, clientVars, sigVars, tsVars, ringVars, faults>>

\* the mutexes are destroyed and main returns EXIT_SUCCESS: the process ends
main_return ==
    /\ mpc = "m_return"
    /\ exit_status' = "EXIT_SUCCESS"
    /\ mpc' = "m_exited"
    /\ UNCHANGED <<wi, m_client, server_fd, lsock, regVars, fileVars,
                   connVars, clientVars, sigVars, tsVars, ringVars, faults>>

(* ======================= connection_handler ======================= *)

\* packet_buffer = malloc(buffer_capacity) succeeds
conn_start(c) ==
    /\ Running
    /\ hpc[c] = "h_start"
    /\ hpc' = [hpc EXCEPT ![c] = "h_loop"]
    /\ UNCHANGED <<mainVars, regVars, fileVars, packet_buffer, buffer_capacity,
                   recv_buffer, fd_open, close_calls, roff, rbuf, replies, appended, fail,
                   rejected, clientVars, sigVars, tsVars, ringVars, faults>>

\* while (connection_active && !shutdown_requested): the test of the flag
conn_loop(c) ==
    /\ Running
    /\ hpc[c] = "h_loop"
    /\ hpc' = [hpc EXCEPT ![c] =
                  IF shutdown_requested = 1 THEN "h_close" ELSE "h_recv"]
    /\ UNCHANGED <<mainVars, regVars, fileVars, packet_buffer, buffer_capacity,
                   recv_buffer, fd_open, close_calls, roff, rbuf, replies, appended, fail,
                   rejected, clientVars, sigVars, tsVars, ringVars, faults>>

\* recv returns n > 0 bytes, at most sizeof(recv_buffer) - 1
conn_recv(c, n) ==
    /\ Running
    /\ hpc[c] = "h_recv"
    /\ n \in 1..Min(RECV_BUFFER_SIZE - 1, Len(sock[c]))
    /\ recv_buffer' = [recv_buffer EXCEPT ![c] = Prefix(sock[c], n)]
    /\ sock' = [sock EXCEPT ![c] = Drop(sock[c], n)]
    /\ hpc' = [hpc EXCEPT ![c] = "h_inner"]
    /\ UNCHANGED <<mainVars, regVars, fileVars, packet_buffer, buffer_capacity,
                   fd_open, close_calls, roff, rbuf, replies, appended, fail, rejected,
                   cstate, sent, sigVars, tsVars, ringVars, faults>>

\* recv returns 0: the client has closed; connection_active = false; break
conn_recv_eof(c) ==
    /\ Running
    /\ hpc[c] = "h_recv"
    /\ sock[c] = <<>>
    /\ cstate[c] = "closed"
    /\ hpc' = [hpc EXCEPT ![c] = "h_close"]
    /\ UNCHANGED <<mainVars, regVars, fileVars, packet_buffer, buffer_capacity,
                   recv_buffer, fd_open, close_calls, roff, rbuf, replies, appended, fail,
                   rejected, clientVars, sigVars, tsVars, ringVars, faults>>

\* new_capacity of the growth step: doubled until it holds `need` bytes,
\* then capped at MAX_PACKET_SIZE
RECURSIVE Doubled(_, _)
Doubled(cap, need) == IF cap < need THEN Doubled(cap * 2, need) ELSE cap

\* mutant of NewCapacity: the doubled capacity is not capped
NewCapacity_Uncapped(cap, need) ==
    IF need > cap THEN Doubled(cap * 2, need) ELSE cap

NewCapacity(cap, need) ==
    IF need > cap
    THEN Min(Doubled(cap * 2, need), MAX_PACKET_SIZE)
    ELSE cap

\* mutant of ExceedsMax: >= for >
ExceedsMax_OffByOne(packet_size, chunk_size) ==
    packet_size + chunk_size >= MAX_PACKET_SIZE

\* the size test of the inner loop: would this chunk exceed the maximum
ExceedsMax(packet_size, chunk_size) ==
    packet_size + chunk_size > MAX_PACKET_SIZE

\* mutant of AfterPacket: the rest of the chunk is dropped after a packet
AfterPacket_DropsRest(c) == "h_loop"

\* where the handler goes once a packet has been dealt with (packet_size is
\* reset): the inner loop again while bytes of the chunk remain, else the
\* test of the outer loop
AfterPacket(c) == IF recv_buffer[c] # <<>> THEN "h_inner" ELSE "h_loop"

\* mutant of ChunkSize: the newline is left out of the chunk
ChunkSize_NoNewline(remaining) ==
    IF NewlinePos(remaining) > 0
    THEN NewlinePos(remaining) - 1
    ELSE Len(remaining)

\* chunk_size: up to and including the first newline of the remaining
\* bytes, all of them when there is none
ChunkSize(remaining) ==
    IF NewlinePos(remaining) > 0
    THEN NewlinePos(remaining)
    ELSE Len(remaining)

\* one iteration of the inner loop, while (remaining > 0 &&
\* !shutdown_requested): the next chunk, up to and including the first
\* newline, is size-checked and copied to the packet buffer
conn_chunk(c) ==
    /\ Running
    /\ hpc[c] = "h_inner"
    /\ LET nl == NewlinePos(recv_buffer[c])
           chunk_size == ChunkSize(recv_buffer[c])
           packet_size == Len(packet_buffer[c])
       IN  IF shutdown_requested = 1
           THEN /\ hpc' = [hpc EXCEPT ![c] = "h_loop"]
                /\ recv_buffer' = [recv_buffer EXCEPT ![c] = <<>>]
                /\ UNCHANGED <<packet_buffer, buffer_capacity, fd_open, close_calls, rejected>>
           ELSE IF ExceedsMax(packet_size, chunk_size)
           THEN \* free, close(client_fd), then unregister_thread and return
                /\ hpc' = [hpc EXCEPT ![c] = "h_unreg"]
                /\ fd_open' = [fd_open EXCEPT ![c] = FALSE]
                /\ close_calls' = [close_calls EXCEPT ![c] = @ + 1]
                /\ rejected' = [rejected EXCEPT ![c] = TRUE]
                /\ packet_buffer' = [packet_buffer EXCEPT ![c] = <<>>]
                /\ recv_buffer' = [recv_buffer EXCEPT ![c] = <<>>]
                /\ UNCHANGED buffer_capacity
           ELSE /\ buffer_capacity' = [buffer_capacity EXCEPT ![c] =
                      NewCapacity(@, packet_size + chunk_size)]
                /\ packet_buffer' = [packet_buffer EXCEPT ![c] =
                      @ \o Prefix(recv_buffer[c], chunk_size)]
                /\ recv_buffer' = [recv_buffer EXCEPT ![c] = Drop(@, chunk_size)]
                /\ hpc' = [hpc EXCEPT ![c] =
                      IF nl > 0 THEN "h_write" ELSE "h_loop"]
                /\ UNCHANGED <<fd_open, close_calls, rejected>>
    /\ UNCHANGED <<mainVars, regVars, fileVars, roff, rbuf, replies, appended,
                   fail, clientVars, sigVars, tsVars, ringVars, faults>>

(* ---- write_data_to_file ---- *)

\* mutant of write_lock: the handler does not wait for file_mutex
write_lock_NoWait(c) ==
    /\ Running
    /\ hpc[c] = "h_write"
    /\ file_mutex' = c
    /\ hpc' = [hpc EXCEPT ![c] = "w_in"]
    /\ UNCHANGED <<mainVars, regVars, log, fileExists, unlinks, packet_buffer,
                   buffer_capacity, recv_buffer, fd_open, close_calls, roff, rbuf, replies,
                   appended, fail, rejected, clientVars, sigVars, tsVars, ringVars, faults>>

\* pthread_mutex_lock(&file_mutex)
write_lock(c) ==
    /\ Running
    /\ hpc[c] = "h_write"
    /\ file_mutex = NoThread
    /\ file_mutex' = c
    /\ hpc' = [hpc EXCEPT ![c] = "w_in"]
    /\ UNCHANGED <<mainVars, regVars, log, fileExists, unlinks, packet_buffer,
                   buffer_capacity, recv_buffer, fd_open, close_calls, roff, rbuf, replies,
                   appended, fail, rejected, clientVars, sigVars, tsVars, ringVars, faults>>

\* mutant of AppendedFile: the packet is written at the start of the file
AppendedFile_Prepends(file, data) == data \o file

\* mutant of AppendedFile: the file is opened without O_APPEND and
\* overwritten
AppendedFile_Truncates(file, data) == data

\* what open(O_WRONLY | O_CREAT | O_APPEND) and a full write leave in the file
AppendedFile(file, data) == file \o data

\* open, write of the whole packet, close, unlock, return 0; the handler
\* goes on to read_and_send_file
write_data_to_file(c) ==
    /\ Running
    /\ hpc[c] = "w_in"
    /\ log' = AppendedFile(log, packet_buffer[c])
    /\ fileExists' = TRUE
    /\ appended' = [appended EXCEPT ![c] =
                       Append(@, [pkt |-> packet_buffer[c], log |-> log'])]
    /\ file_mutex' = NoThread
    /\ hpc' = [hpc EXCEPT ![c] = "h_read"]
    /\ UNCHANGED <<mainVars, regVars, unlinks, packet_buffer, buffer_capacity,
                   recv_buffer, fd_open, close_calls, roff, rbuf, replies, fail, rejected,
                   clientVars, sigVars, tsVars, ringVars, faults>>

\* mutant of write_data_to_file_fail: packet_size is reset only after a
\* successful append
write_data_to_file_fail_NoReset(c, created, k) ==
    /\ Running
    /\ hpc[c] = "w_in"
    /\ faults < MaxFaults
    /\ k \in 0..(Len(packet_buffer[c]) - 1)
    /\ ~created => k = 0
    /\ faults' = faults + 1
    /\ fail' = [fail EXCEPT ![c] = TRUE]
    /\ log' = log \o Prefix(packet_buffer[c], k)
    /\ fileExists' = (fileExists \/ created)
    /\ file_mutex' = NoThread
    /\ hpc' = [hpc EXCEPT ![c] = AfterPacket(c)]
    /\ UNCHANGED <<mainVars, regVars, unlinks, packet_buffer, buffer_capacity,
                   recv_buffer, fd_open, close_calls, roff, rbuf, replies, appended,
                   rejected, clientVars, sigVars, tsVars, ringVars>>

\* the failures of write_data_to_file: open fails (created = FALSE, k = 0),
\* write returns -1 (k = 0) or writes only k bytes of the packet; unlock,
\* return -1; the handler logs it and resets packet_size
write_data_to_file_fail(c, created, k) ==
    /\ Running
    /\ hpc[c] = "w_in"
    /\ faults < MaxFaults
    /\ k \in 0..(Len(packet_buffer[c]) - 1)
    /\ ~created => k = 0
    /\ faults' = faults + 1
    /\ fail' = [fail EXCEPT ![c] = TRUE]
    /\ log' = log \o Prefix(packet_buffer[c], k)
    /\ fileExists' = (fileExists \/ created)
    /\ file_mutex' = NoThread
    /\ packet_buffer' = [packet_buffer EXCEPT ![c] = <<>>]
    /\ hpc' = [hpc EXCEPT ![c] = AfterPacket(c)]
    /\ UNCHANGED <<mainVars, regVars, unlinks, buffer_capacity, recv_buffer,
                   fd_open, close_calls, roff, rbuf, replies, appended, rejected,
                   clientVars, sigVars, tsVars, ringVars>>

(* ---- read_and_send_file ---- *)

\* pthread_mutex_lock(&file_mutex); the file is read from its start
read_lock(c) ==
    /\ Running
    /\ hpc[c] = "h_read"
    /\ file_mutex = NoThread
    /\ file_mutex' = c
    /\ roff' = [roff EXCEPT ![c] = 0]
    /\ rbuf' = [rbuf EXCEPT ![c] = <<>>]
    /\ replies' = [replies EXCEPT ![c] = Append(@, [data |-> <<>>, st |-> "open"])]
    /\ hpc' = [hpc EXCEPT ![c] = "r_in"]
    /\ UNCHANGED <<mainVars, regVars, log, fileExists, unlinks, packet_buffer,
                   buffer_capacity, recv_buffer, fd_open, close_calls, appended, fail,
                   rejected, clientVars, sigVars, tsVars, ringVars, faults>>

\* the reply being sent, with its status set to st
CloseReply(c, st) ==
    [replies EXCEPT ![c][Len(replies[c])].st = st]

\* what read(fd, buffer, sizeof(buffer)) returns at offset off of the file
FileChunk(file, off) ==
    SubSeq(file, off + 1, Min(off + RECV_BUFFER_SIZE, Len(file)))

\* mutant of read_chunk: read is called once, only the first
\* RECV_BUFFER_SIZE bytes of the file are sent
read_chunk_Once(c) ==
    /\ Running
    /\ hpc[c] = "r_in"
    /\ IF ~fileExists \/ roff[c] >= Len(log) \/ roff[c] > 0
       THEN /\ file_mutex' = NoThread
            /\ replies' = CloseReply(c, "ok")
            /\ packet_buffer' = [packet_buffer EXCEPT ![c] = <<>>]
            /\ hpc' = [hpc EXCEPT ![c] = AfterPacket(c)]
            /\ UNCHANGED <<roff, rbuf>>
       ELSE /\ rbuf' = [rbuf EXCEPT ![c] = FileChunk(log, roff[c])]
            /\ roff' = [roff EXCEPT ![c] = @ + Len(FileChunk(log, roff[c]))]
            /\ hpc' = [hpc EXCEPT ![c] = "r_send"]
            /\ UNCHANGED <<file_mutex, replies, packet_buffer>>
    /\ UNCHANGED <<mainVars, regVars, log, fileExists, unlinks,
                   buffer_capacity, recv_buffer, fd_open, close_calls, appended, fail,
                   rejected, clientVars, sigVars, tsVars, ringVars, faults>>

\* read(fd, buffer, sizeof(buffer)): the next bytes of the file; at its end
\* (or when open fails because the file does not exist) close, unlock,
\* return 0, and the handler resets packet_size
read_chunk(c) ==
    /\ Running
    /\ hpc[c] = "r_in"
    /\ IF ~fileExists \/ roff[c] >= Len(log)
       THEN /\ file_mutex' = NoThread
            /\ replies' = CloseReply(c, "ok")
            /\ packet_buffer' = [packet_buffer EXCEPT ![c] = <<>>]
            /\ hpc' = [hpc EXCEPT ![c] = AfterPacket(c)]
            /\ UNCHANGED <<roff, rbuf>>
       ELSE /\ rbuf' = [rbuf EXCEPT ![c] = FileChunk(log, roff[c])]
            /\ roff' = [roff EXCEPT ![c] = @ + Len(FileChunk(log, roff[c]))]
            /\ hpc' = [hpc EXCEPT ![c] = "r_send"]
            /\ UNCHANGED <<file_mutex, replies, packet_buffer>>
    /\ UNCHANGED <<mainVars, regVars, log, fileExists, unlinks,
                   buffer_capacity, recv_buffer, fd_open, close_calls, appended, fail,
                   rejected, clientVars, sigVars, tsVars, ringVars, faults>>

\* send accepts k of the bytes still to send (the inner while loop)
read_send(c, k) ==
    /\ Running
    /\ hpc[c] = "r_send"
    /\ k \in 1..Len(rbuf[c])
    /\ replies' = [replies EXCEPT ![c][Len(replies[c])].data =
                      @ \o Prefix(rbuf[c], k)]
    /\ rbuf' = [rbuf EXCEPT ![c] = Drop(@, k)]
    /\ hpc' = [hpc EXCEPT ![c] = IF k = Len(rbuf[c]) THEN "r_in" ELSE "r_send"]
    /\ UNCHANGED <<mainVars, regVars, fileVars, packet_buffer, buffer_capacity,
                   recv_buffer, fd_open, close_calls, roff, appended, fail, rejected,
                   clientVars, sigVars, tsVars, ringVars, faults>>

\* send returns -1 with errno other than EINTR: close, unlock, return -1;
\* the handler logs it, resets packet_size and stays in its loop
read_send_fail(c) ==
    /\ Running
    /\ hpc[c] = "r_send"
    /\ faults < MaxFaults
    /\ faults' = faults + 1
    /\ fail' = [fail EXCEPT ![c] = TRUE]
    /\ replies' = CloseReply(c, "err")
    /\ rbuf' = [rbuf EXCEPT ![c] = <<>>]
    /\ file_mutex' = NoThread
    /\ packet_buffer' = [packet_buffer EXCEPT ![c] = <<>>]
    /\ hpc' = [hpc EXCEPT ![c] = AfterPacket(c)]
    /\ UNCHANGED <<mainVars, regVars, log, fileExists, unlinks,
                   buffer_capacity, recv_buffer, fd_open, close_calls, roff, appended,
                   rejected, clientVars, sigVars, tsVars, ringVars>>

(* ---- the exit path ---- *)

\* malloc of the packet buffer fails: close(client_fd), unregister_thread,
\* return
conn_start_fail(c) ==
    /\ Running
    /\ hpc[c] = "h_start"
    /\ faults < MaxFaults
    /\ faults' = faults + 1
    /\ fail' = [fail EXCEPT ![c] = TRUE]
    /\ fd_open' = [fd_open EXCEPT ![c] = FALSE]
    /\ close_calls' = [close_calls EXCEPT ![c] = @ + 1]
    /\ hpc' = [hpc EXCEPT ![c] = "h_unreg"]
    /\ UNCHANGED <<mainVars, regVars, fileVars, packet_buffer, buffer_capacity,
                   recv_buffer, roff, rbuf, replies, appended, rejected,
                   clientVars, sigVars, tsVars, ringVars>>

\* recv returns -1 with errno other than EINTR: connection_active = false;
\* break
conn_recv_fail(c) ==
    /\ Running
    /\ hpc[c] = "h_recv"
    /\ faults < MaxFaults
    /\ faults' = faults + 1
    /\ fail' = [fail EXCEPT ![c] = TRUE]
    /\ hpc' = [hpc EXCEPT ![c] = "h_close"]
    /\ UNCHANGED <<mainVars, regVars, fileVars, packet_buffer, buffer_capacity,
                   recv_buffer, fd_open, close_calls, roff, rbuf, replies,
                   appended, rejected, clientVars, sigVars, tsVars, ringVars>>

\* realloc fails when the packet buffer has to grow: free, close(client_fd),
\* unregister_thread, return
conn_realloc_fail(c) ==
    /\ Running
    /\ hpc[c] = "h_inner"
    /\ shutdown_requested = 0
    /\ ~ExceedsMax(Len(packet_buffer[c]), ChunkSize(recv_buffer[c]))
    /\ Len(packet_buffer[c]) + ChunkSize(recv_buffer[c]) > buffer_capacity[c]
    /\ faults < MaxFaults
    /\ faults' = faults + 1
    /\ fail' = [fail EXCEPT ![c] = TRUE]
    /\ fd_open' = [fd_open EXCEPT ![c] = FALSE]
    /\ close_calls' = [close_calls EXCEPT ![c] = @ + 1]
    /\ packet_buffer' = [packet_buffer EXCEPT ![c] = <<>>]
    /\ recv_buffer' = [recv_buffer EXCEPT ![c] = <<>>]
    /\ hpc' = [hpc EXCEPT ![c] = "h_unreg"]
    /\ UNCHANGED <<mainVars, regVars, fileVars, buffer_capacity, roff, rbuf,
                   replies, appended, rejected, clientVars, sigVars, tsVars,
                   ringVars>>

\* mutant of conn_close: the exit path does not close the socket
conn_close_NoClose(c) ==
    /\ Running
    /\ hpc[c] = "h_close"
    /\ packet_buffer' = [packet_buffer EXCEPT ![c] = <<>>]
    /\ hpc' = [hpc EXCEPT ![c] = "h_unreg"]
    /\ UNCHANGED <<mainVars, regVars, fileVars, buffer_capacity, recv_buffer,
                   fd_open, close_calls, roff, rbuf, replies, appended, fail,
                   rejected, clientVars, sigVars, tsVars, ringVars, faults>>

\* free(packet_buffer); close(client_fd)
conn_close(c) ==
    /\ Running
    /\ hpc[c] = "h_close"
    /\ fd_open' = [fd_open EXCEPT ![c] = FALSE]
    /\ close_calls' = [close_calls EXCEPT ![c] = @ + 1]
    /\ packet_buffer' = [packet_buffer EXCEPT ![c] = <<>>]
    /\ hpc' = [hpc EXCEPT ![c] = "h_unreg"]
    /\ UNCHANGED <<mainVars, regVars, fileVars, buffer_capacity, recv_buffer,
                   roff, rbuf, replies, appended, fail, rejected, clientVars,
                   sigVars, tsVars, ringVars, faults>>

OwnSlots(c) == {i \in Slots : thread_pool[i].active /\ thread_pool[i].thread = c}

\* mutant of unregister_thread: the count is decremented also when no slot
\* of the thread is found
unregister_thread_AlwaysDecrements(c) ==
    /\ Running
    /\ hpc[c] = "h_unreg"
    /\ threads_mutex = NoThread
    /\ IF OwnSlots(c) # {}
       THEN thread_pool' = [thread_pool EXCEPT ![FirstOf(OwnSlots(c))].active = FALSE]
       ELSE UNCHANGED thread_pool
    /\ active_thread_count' = active_thread_count - 1
    /\ hpc' = [hpc EXCEPT ![c] = "h_done"]
    /\ UNCHANGED <<mainVars, threads_mutex, joins, fileVars, packet_buffer,
                   buffer_capacity, recv_buffer, fd_open, close_calls, roff, rbuf, replies,
                   appended, fail, rejected, clientVars, sigVars, tsVars, ringVars, faults>>

\* unregister_thread(pthread_self()), then return NULL
unregister_thread(c) ==
    /\ Running
    /\ hpc[c] = "h_unreg"
    /\ threads_mutex = NoThread
    /\ IF OwnSlots(c) # {}
       THEN /\ thread_pool' = [thread_pool EXCEPT ![FirstOf(OwnSlots(c))].active = FALSE]
            /\ active_thread_count' = active_thread_count - 1
       ELSE UNCHANGED <<thread_pool, active_thread_count>>
    /\ hpc' = [hpc EXCEPT ![c] = "h_done"]
    /\ UNCHANGED <<mainVars, threads_mutex, joins, fileVars, packet_buffer,
                   buffer_capacity, recv_buffer, fd_open, close_calls, roff, rbuf, replies,
                   appended, fail, rejected, clientVars, sigVars, tsVars, ringVars, faults>>

(* ---- the timestamp task ---- *)

TsThread == NumConns + 2

\* mutant of TimestampRecord: the record lacks its trailing newline
TimestampRecord_NoNewline == <<TS>>

\* a timestamp record: the text "timestamp:<date and time>" and a newline
TimestampRecord == <<TS, NL>>

\* time passes; a timed wait does not outlast its wake time
timer_tick ==
    /\ Running
    /\ now < MaxTime
    /\ tpc = "t_wait" => now < wake_time
    /\ now' = now + 1
    /\ UNCHANGED <<mainVars, regVars, fileVars, connVars, clientVars, sigVars,
                   faults, tpc, wake_time, fired, ringVars>>

\* the timed wait ends because the wake time has come: with the shutdown
\* flag unset a record is to be appended, else the loop ends
ts_timeout ==
    /\ Running
    /\ tpc = "t_wait"
    /\ now >= wake_time
    /\ IF shutdown_requested = 0
       THEN tpc' = "t_append" /\ fired' = fired + 1
       ELSE tpc' = "t_done" /\ UNCHANGED fired
    /\ UNCHANGED <<mainVars, regVars, fileVars, connVars, clientVars, sigVars,
                   faults, now, wake_time, ringVars>>

\* the wait is ended early by the wake notification of shutdown: the flag
\* is re-checked and the loop ends
ts_wake ==
    /\ Running
    /\ tpc = "t_wait"
    /\ now < wake_time
    /\ shutdown_requested = 1
    /\ tpc' = "t_done"
    /\ UNCHANGED <<mainVars, regVars, fileVars, connVars, clientVars, sigVars,
                   faults, now, wake_time, fired, ringVars>>

\* append of the record: the log lock is taken
ts_lock ==
    /\ Running
    /\ tpc = "t_append"
    /\ file_mutex = NoThread
    /\ file_mutex' = TsThread
    /\ tpc' = "t_in"
    /\ UNCHANGED <<mainVars, regVars, log, fileExists, unlinks, connVars,
                   clientVars, sigVars, faults, now, wake_time, fired,
                   ringVars>>

\* the record is appended and the lock released; the loop tests the flag
\* and computes the next wake time, one interval from now
ts_append ==
    /\ Running
    /\ tpc = "t_in"
    /\ log' = AppendedFile(log, TimestampRecord)
    /\ fileExists' = TRUE
    /\ file_mutex' = NoThread
    /\ IF shutdown_requested = 0
       THEN tpc' = "t_wait" /\ wake_time' = now + TIMESTAMP_INTERVAL
       ELSE tpc' = "t_done" /\ UNCHANGED wake_time
    /\ UNCHANGED <<mainVars, regVars, unlinks, connVars, clientVars, sigVars,
                   faults, now, fired, ringVars>>

TimestampNext ==
    \/ timer_tick
    \/ ts_timeout
    \/ ts_wake
    \/ ts_lock
    \/ ts_append

(* ---- aesd-circular-buffer.c ---- *)

\* aesd_circular_buffer_init: memset of the whole struct to 0
aesd_circular_buffer_init ==
    /\ entry' = [i \in Offsets |-> NoEntry]
    /\ in_offs' = 0
    /\ out_offs' = 0
    /\ full' = FALSE
    /\ added' = <<>>
    /\ find_offset' = NoFind
    /\ UNCHANGED <<mainVars, regVars, fileVars, connVars, clientVars, sigVars,
                   faults, tsVars, find_rtn, entry_offset_byte_rtn,
                   stale_byte_rtn>>

\* mutant of NextOutOffs: out_offs stays where it is when the buffer is full
NextOutOffs_NoAdvance(was_full, out) == out

\* out_offs after an add: advanced past the overwritten entry when the
\* buffer was full
NextOutOffs(was_full, out) ==
    IF was_full
    THEN (out + 1) % AESDCHAR_MAX_WRITE_OPERATIONS_SUPPORTED
    ELSE out

\* mutant of FullAfter: the buffer counts as full when the write pointer
\* has wrapped to 0
FullAfter_AtZero(in, out) == in = 0

\* buffer->full after an add: the write pointer has caught up with the read
\* pointer
FullAfter(in, out) == in = out

\* aesd_circular_buffer_add_entry(buffer, add_entry)
aesd_circular_buffer_add_entry(add_entry) ==
    /\ Len(added) < MaxAdds
    /\ entry' = [entry EXCEPT ![in_offs] = add_entry]
    /\ out_offs' = NextOutOffs(full, out_offs)
    /\ in_offs' = (in_offs + 1) % AESDCHAR_MAX_WRITE_OPERATIONS_SUPPORTED
    /\ full' = FullAfter(in_offs', out_offs')
    /\ added' = Append(added, add_entry)
    /\ find_offset' = NoFind
    /\ UNCHANGED <<mainVars, regVars, fileVars, connVars, clientVars, sigVars,
                   faults, tsVars, find_rtn, entry_offset_byte_rtn,
                   stale_byte_rtn>>

\* the entries a caller adds: a fresh buffptr for each, any size
NewEntries ==
    {[buffptr |-> Len(added) + 1, size |-> s] : s \in 0..MaxEntrySize}

\* mutant of InEntry: <= for <
InEntry_Inclusive(char_offset, cumulative, size) ==
    char_offset <= cumulative + size

\* does the requested offset lie within the entry (line 78)
InEntry(char_offset, cumulative, size) ==
    char_offset < cumulative + size

\* num_entries: the number of valid entries currently stored
NumEntries ==
    IF full
    THEN AESDCHAR_MAX_WRITE_OPERATIONS_SUPPORTED
    ELSE (in_offs + AESDCHAR_MAX_WRITE_OPERATIONS_SUPPORTED - out_offs)
             % AESDCHAR_MAX_WRITE_OPERATIONS_SUPPORTED

\* the for loop of find_entry_offset_for_fpos from its i-th iteration: the
\* value returned and the value stored to *entry_offset_byte_rtn
RECURSIVE FindLoop(_, _, _, _)
FindLoop(char_offset, i, index, cumulative) ==
    IF i >= NumEntries
    THEN [rtn |-> NULL, byte |-> 0]
    ELSE IF InEntry(char_offset, cumulative, entry[index].size)
    THEN [rtn |-> index, byte |-> char_offset - cumulative]
    ELSE FindLoop(char_offset, i + 1,
                  (index + 1) % AESDCHAR_MAX_WRITE_OPERATIONS_SUPPORTED,
                  cumulative + entry[index].size)

\* aesd_circular_buffer_find_entry_offset_for_fpos(buffer, char_offset,
\* entry_offset_byte_rtn), called with `stale` in *entry_offset_byte_rtn
aesd_circular_buffer_find_entry_offset_for_fpos(char_offset, stale) ==
    /\ find_offset' = char_offset
    /\ stale_byte_rtn' = stale
    /\ IF ~full /\ in_offs = out_offs
       THEN /\ entry_offset_byte_rtn' = 0
            /\ find_rtn' = NULL
       ELSE LET r == FindLoop(char_offset, 0, out_offs, 0)
            IN  /\ entry_offset_byte_rtn' = r.byte
                /\ find_rtn' = r.rtn
    /\ UNCHANGED <<mainVars, regVars, fileVars, connVars, clientVars, sigVars,
                   faults, tsVars, entry, in_offs, out_offs, full, added>>

(* ======================= specifications ======================= *)

\* the main thread while it serves
ServeNext ==
    \/ main_loop
    \/ can_accept_new_connection
    \/ main_create
    \/ register_thread

\* the main thread once a termination request was made
TeardownNext ==
    \/ main_accept_fail
    \/ wait_for_all_threads_lock
    \/ wait_for_all_threads_join
    \/ wait_for_all_threads_unlock
    \/ cleanup_close
    \/ cleanup_unlink
    \/ main_return

HandlerNext(c) ==
    \/ conn_start(c)
    \/ conn_loop(c)
    \/ \E n \in 1..(RECV_BUFFER_SIZE - 1) : conn_recv(c, n)
    \/ conn_recv_eof(c)
    \/ conn_chunk(c)
    \/ write_lock(c)
    \/ write_data_to_file(c)
    \/ read_lock(c)
    \/ read_chunk(c)
    \/ \E k \in 1..RECV_BUFFER_SIZE : read_send(c, k)
    \/ conn_close(c)
    \/ unregister_thread(c)

FaultNext(c) ==
    \/ \E created \in BOOLEAN, k \in 0..(MAX_PACKET_SIZE - 1) :
           write_data_to_file_fail(c, created, k)
    \/ read_send_fail(c)

\* the failures that end a handler: of malloc, of recv and of realloc
ExitFaultNext(c) ==
    \/ conn_start_fail(c)
    \/ conn_recv_fail(c)
    \/ conn_realloc_fail(c)

\* a client connects, to send a stream of at most n bytes
Accept(n) ==
    \E c \in 1..MaxServed : \E s \in Streams(c, n) : \E closes \in BOOLEAN :
        main_accept(c, s, closes)

Signal == \E t \in Conns \cup {MainThread} : signal_handler(t)

\* Spec: the server serving NumConns concurrent clients, with no
\* termination request and no I/O failure.
Next ==
    \/ ServeNext
    \/ Accept(MaxStream)
    \/ \E c \in Conns : HandlerNext(c)

Spec == Init /\ [][Next]_vars

\* SpecShutdown: the same with termination requests and the teardown.
NextShutdown ==
    \/ ServeNext
    \/ TeardownNext
    \/ Accept(ShutStream)
    \/ \E c \in Conns : HandlerNext(c)
    \/ Signal

SpecShutdown == Init /\ [][NextShutdown]_vars

\* FairShutdown: the scheduler lets every thread of the server that can
\* take a step take one; nothing is assumed of the clients or the signals.
FairShutdown ==
    /\ SpecShutdown
    /\ WF_vars(ServeNext \/ TeardownNext)
    /\ \A c \in Conns : WF_vars(HandlerNext(c))

\* the failures of accept while the server serves
AcceptFaultNext ==
    \/ main_accept_transient
    \/ main_accept_fatal

\* SpecAccept: SpecShutdown with failures of accept.
NextAccept ==
    \/ NextShutdown
    \/ AcceptFaultNext

SpecAccept == Init /\ [][NextAccept]_vars

\* what the clients of SpecPool send: the first at most one byte, the
\* others nothing
PoolStreams(c) == IF c = 1 THEN Streams(c, ShutStream) ELSE {<<>>}

\* SpecPool: more clients than MAX_CONCURRENT_THREADS, with termination
\* requests; the teardown is left out.
NextPool ==
    \/ ServeNext
    \/ \E c \in Conns : \E s \in PoolStreams(c) : \E closes \in BOOLEAN :
           main_accept(c, s, closes)
    \/ \E c \in Conns : HandlerNext(c)
    \/ Signal

SpecPool == Init /\ [][NextPool]_vars

\* SpecExits: one connection, connection 1, sending up to one byte more
\* than the largest packet, with termination requests and with the
\* failures that end a handler; the teardown is left out.
NextExits ==
    \/ ServeNext
    \/ \E s \in Streams(1, MAX_PACKET_SIZE + 1) : \E closes \in BOOLEAN :
           main_accept(1, s, closes)
    \/ HandlerNext(1)
    \/ ExitFaultNext(1)
    \/ Signal

SpecExits == Init /\ [][NextExits]_vars

\* SpecRing: the ring buffer after init, under any adds, re-inits and finds.
NextRing ==
    \/ aesd_circular_buffer_init
    \/ \E e \in NewEntries : aesd_circular_buffer_add_entry(e)
    \/ \E char_offset \in 0..MaxOffset : \E stale \in 0..MaxOffset :
           aesd_circular_buffer_find_entry_offset_for_fpos(char_offset, stale)

SpecRing == Init /\ [][NextRing]_vars

\* SpecTimestamp: the timestamp task next to the server serving one
\* client, with termination requests; the teardown is left out.
NextTimestamp ==
    \/ ServeNext
    \/ \E s \in Streams(1, ShutStream) : \E closes \in BOOLEAN :
           main_accept(1, s, closes)
    \/ HandlerNext(1)
    \/ Signal
    \/ TimestampNext

SpecTimestamp == Init /\ [][NextTimestamp]_vars

\* SpecSingle: one connection, connection 1, sending up to one byte more
\* than the largest packet, with I/O failures.
NextSingle ==
    \/ ServeNext
    \/ \E s \in Streams(1, MAX_PACKET_SIZE + 1) : \E closes \in BOOLEAN :
           main_accept(1, s, closes)
    \/ HandlerNext(1)
    \/ FaultNext(1)

SpecSingle == Init /\ [][NextSingle]_vars

(* ======================= what the claims speak of ======================= *)

\* a packet: bytes ending in the one newline they hold
IsPacket(p) ==
    /\ Len(p) > 0
    /\ p[Len(p)] = NL
    /\ \A i \in 1..(Len(p) - 1) : p[i] # NL

\* a stream cut after each newline: its packets in order, then, when the
\* stream does not end in a newline, the bytes after the last one
RECURSIVE Pieces(_)
Pieces(s) ==
    IF s = <<>> THEN <<>>
    ELSE IF \E i \in 1..Len(s) : IsPacket(Prefix(s, i))
    THEN LET i == CHOOSE j \in 1..Len(s) : IsPacket(Prefix(s, j))
         IN  <<Prefix(s, i)>> \o Pieces(Drop(s, i))
    ELSE <<s>>

\* the concatenation of a sequence of byte sequences
RECURSIVE Flat(_)
Flat(ps) == IF ps = <<>> THEN <<>> ELSE Head(ps) \o Flat(Tail(ps))

\* the packets of a stream the server is to accept: those before the first
\* piece longer than MAX_PACKET_SIZE
RECURSIVE AcceptedOf(_)
AcceptedOf(ps) ==
    IF ps = <<>> \/ ~IsPacket(Head(ps)) \/ Len(Head(ps)) > MAX_PACKET_SIZE
    THEN <<>>
    ELSE <<Head(ps)>> \o AcceptedOf(Tail(ps))

Accepted(s) == AcceptedOf(Pieces(s))

\* the stream holds a packet, or an unfinished one, longer than the maximum
Oversize(s) == \E i \in 1..Len(Pieces(s)) : Len(Pieces(s)[i]) > MAX_PACKET_SIZE

\* the packets handler c has appended, in order
AppendedPackets(c) == [i \in 1..Len(appended[c]) |-> appended[c][i].pkt]

\* handler c has dealt with all its client has sent: it has returned, or it
\* waits in recv with nothing left to receive
Quiescent(c) ==
    \/ hpc[c] = "h_done"
    \/ hpc[c] = "h_recv" /\ sock[c] = <<>> /\ cstate[c] = "open"

\* no I/O failure has hit connection c and no termination was requested
Clean(c) == ~fail[c] /\ shutdown_requested = 0

\* no connection but c has written to the log
NoOtherWriter(c) == \A d \in Conns \ {c} : appended[d] = <<>> /\ ~fail[d]

AllRepliesOk(c) == \A i \in 1..Len(replies[c]) : replies[c][i].st = "ok"

\* C1: on a single connection with no other writer, no I/O failure and no
\* termination request, sending packets P1..Pk (each within
\* MAX_PACKET_SIZE) to an initially empty log, the reply to the i-th packet
\* is exactly P1..Pi, and once the handler has dealt with the whole stream
\* there are k replies and the log is exactly P1..Pk.
C1_RepliesAreLogPrefixes ==
    \A c \in Conns :
        (Clean(c) /\ NoOtherWriter(c) /\ ~Oversize(sent[c])) =>
            LET P == Accepted(sent[c])
            IN  /\ Len(replies[c]) <= Len(P)
                /\ \A i \in 1..Len(replies[c]) :
                       replies[c][i].st = "ok" =>
                           replies[c][i].data = Flat(SubSeq(P, 1, i))
                /\ log = Flat(SubSeq(P, 1, Len(appended[c])))
                /\ Quiescent(c) =>
                       /\ Len(replies[c]) = Len(P)
                       /\ AllRepliesOk(c)
                       /\ log = Flat(P)

\* two different packets were sent, both replies arrived, the second reply
\* holding both packets
C1_Witness ==
    \E c \in Conns :
        /\ Clean(c) /\ NoOtherWriter(c) /\ Quiescent(c)
        /\ Len(Accepted(sent[c])) = 2
        /\ Accepted(sent[c])[1] # Accepted(sent[c])[2]
        /\ Len(replies[c]) = 2
        /\ replies[c][1].data = Accepted(sent[c])[1]
        /\ replies[c][2].data = sent[c]
        /\ log = sent[c]

\* handler c is inside write_data_to_file or read_and_send_file, between
\* the lock and the unlock
InLogOp(c) == hpc[c] \in {"w_in", "r_in", "r_send"}

\* C2: at most one thread is inside a log operation, and it owns
\* file_mutex: an append never overlaps an append or a read-all of another
\* handler, and while a handler reads the log holds only whole packets.
C2_LogMutualExclusion ==
    /\ Cardinality({c \in Conns : InLogOp(c)}) <= 1
    /\ \A c \in Conns : InLogOp(c) => file_mutex = c
    /\ \A c \in Conns :
           hpc[c] \in {"r_in", "r_send"} =>
               \A i \in 1..Len(Pieces(log)) : IsPacket(Pieces(log)[i])

\* one handler is reading or appending while another waits for the lock
C2_Witness ==
    \E c, d \in Conns :
        /\ c # d
        /\ InLogOp(c)
        /\ hpc[d] \in {"h_write", "h_read"}

\* connection c sent exactly one packet, of n bytes
SentOnePacket(c, n) == IsPacket(sent[c]) /\ Len(sent[c]) = n

\* C3: when two connections each send one packet of N bytes on an
\* initially empty log, then under every interleaving, once both packets are
\* appended the log is 2N bytes, one packet in full followed by the other.
C3_PacketsNotInterleaved ==
    \A c, d \in Conns : \A n \in 1..MAX_PACKET_SIZE :
        ( /\ c # d
          /\ SentOnePacket(c, n) /\ SentOnePacket(d, n)
          /\ Len(appended[c]) = 1 /\ Len(appended[d]) = 1
          /\ \A e \in Conns \ {c, d} : appended[e] = <<>> /\ ~fail[e]
          /\ unlinks = 0 )
        => /\ Len(log) = 2 * n
           /\ log \in {sent[c] \o sent[d], sent[d] \o sent[c]}

\* both appends came before both read-alls: each reply holds both packets
C3_Witness ==
    \E c, d \in Conns :
        /\ c # d
        /\ SentOnePacket(c, 2) /\ SentOnePacket(d, 2)
        /\ Len(appended[c]) = 1 /\ Len(appended[d]) = 1
        /\ Len(replies[c]) = 1 /\ replies[c][1].data = log /\ replies[c][1].st = "ok"
        /\ Len(replies[d]) = 1 /\ replies[d][1].data = log /\ replies[d][1].st = "ok"
        /\ Len(log) = 4

\* C4: the i-th reply a handler sent in full answers its i-th successful
\* append of a packet P, and starts with the log as it stood right after
\* that append: every packet appended before P, then P in full.
C4_ReplyReflectsOwnAppend ==
    \A c \in Conns : \A i \in 1..Len(replies[c]) :
        /\ i <= Len(appended[c])
        /\ replies[c][i].st = "ok" =>
               /\ IsSuffix(appended[c][i].pkt, appended[c][i].log)
               /\ IsPrefix(appended[c][i].log, replies[c][i].data)

\* a reply that holds another connection's packet before the handler's own
\* and yet another one after it
C4_Witness ==
    \E c \in Conns : \E i \in 1..Len(replies[c]) :
        /\ replies[c][i].st = "ok"
        /\ i <= Len(appended[c])
        /\ Len(appended[c][i].log) > Len(appended[c][i].pkt)
        /\ Len(replies[c][i].data) > Len(appended[c][i].log)

\* the client of c sent one packet and closed, and the handler has returned
RoundTripDone(c) ==
    /\ IsPacket(sent[c])
    /\ Len(sent[c]) <= MAX_PACKET_SIZE
    /\ cstate[c] = "closed"
    /\ hpc[c] = "h_done"
    /\ Clean(c)

\* C5 as stated: one packet P then disconnect gives exactly one append of P
\* and exactly one reply, of which P is the suffix.
C5_Original ==
    \A c \in Conns :
        RoundTripDone(c) =>
            /\ AppendedPackets(c) = <<sent[c]>>
            /\ Len(replies[c]) = 1
            /\ replies[c][1].st = "ok"
            /\ IsSuffix(sent[c], replies[c][1].data)

\* C5 (amended): one packet P then disconnect gives exactly one append of P
\* and exactly one reply; the reply starts with the log as it stood right
\* after P's append, which ends with P, so P is the reply's suffix unless
\* another handler appended between P's append and the read-all.
C5_RoundTrip ==
    \A c \in Conns :
        RoundTripDone(c) =>
            /\ AppendedPackets(c) = <<sent[c]>>
            /\ Len(replies[c]) = 1
            /\ replies[c][1].st = "ok"
            /\ IsSuffix(sent[c], appended[c][1].log)
            /\ IsPrefix(appended[c][1].log, replies[c][1].data)
            /\ Len(replies[c][1].data) = Len(appended[c][1].log)
                   => IsSuffix(sent[c], replies[c][1].data)

\* a round trip whose reply ends with another connection's packet
C5_Witness ==
    \E c \in Conns :
        /\ RoundTripDone(c)
        /\ Len(replies[c]) = 1
        /\ replies[c][1].st = "ok"
        /\ Len(replies[c][1].data) > Len(appended[c][1].log)

\* C7: a packet of exactly MAX_PACKET_SIZE bytes is appended and replied
\* to; a packet that grows to MAX_PACKET_SIZE + 1 bytes is rejected: the
\* handler closes the connection and returns, no byte of that packet is
\* appended and no reply is sent for it.  So once the handler has dealt
\* with the stream, what it appended and replied to are exactly the packets
\* before the first piece longer than MAX_PACKET_SIZE.
C7_SizeBoundary ==
    \A c \in Conns :
        /\ rejected[c] =>
               /\ hpc[c] \in {"h_unreg", "h_done"}
               /\ ~fd_open[c]
               /\ Oversize(sent[c])
        /\ (Clean(c) /\ NoOtherWriter(c) /\ Quiescent(c)) =>
               /\ rejected[c] <=> Oversize(sent[c])
               /\ AppendedPackets(c) = Accepted(sent[c])
               /\ Len(replies[c]) = Len(Accepted(sent[c]))
               /\ AllRepliesOk(c)
               /\ log = Flat(Accepted(sent[c]))

\* a packet of MAX_PACKET_SIZE + 1 bytes, newline included, was rejected
C7_Witness ==
    \E c \in Conns :
        /\ Clean(c)
        /\ IsPacket(sent[c])
        /\ Len(sent[c]) = MAX_PACKET_SIZE + 1
        /\ rejected[c]
        /\ hpc[c] = "h_done"
        /\ ~fd_open[c]
        /\ log = <<>>
        /\ replies[c] = <<>>

\* every accepted connection is closed and its handler has returned
AllHandlersDone ==
    \A c \in Conns : cstate[c] # "new" => hpc[c] = "h_done" /\ ~fd_open[c]

\* C6: if a termination request arrives while a handler is blocked in recv
\* on a connection whose client stays connected, then eventually every
\* connection is closed, every handler has returned, the log file is
\* removed and the process has exited with success status.
C6_GracefulShutdown ==
    (shutdown_requested = 1
        /\ \E c \in Conns : hpc[c] = "h_recv" /\ cstate[c] = "open")
    ~> ( /\ mpc = "m_exited"
         /\ exit_status = "EXIT_SUCCESS"
         /\ AllHandlersDone
         /\ unlinks = 1
         /\ ~fileExists )

\* C8: when the termination request is delivered twice or more, also
\* during the teardown, unlink of the log file is called at most once,
\* exactly once by the time the process has exited, and no handler is
\* joined more than once.
C8_ShutdownIdempotent ==
    signals >= 2 =>
        /\ unlinks <= 1
        /\ \A c \in Conns : joins[c] <= 1
        /\ mpc = "m_exited" => unlinks = 1

\* two requests, one of them during the teardown, a handler joined, the
\* file removed, the process gone
C8_Witness ==
    /\ signals >= 2
    /\ lateSignal
    /\ mpc = "m_exited"
    /\ unlinks = 1
    /\ \E c \in Conns : joins[c] = 1

\* C9: once the teardown has removed the log file every handler has
\* returned (or was never created), no thread is inside a log operation,
\* and the file stays removed: no append recreates it.
C9_UnlinkAfterHandlers ==
    unlinks > 0 =>
        /\ \A c \in Conns : hpc[c] \in {"h_none", "h_done"}
        /\ file_mutex = NoThread
        /\ ~fileExists
        /\ log = <<>>

\* the file was removed after a handler had appended to it
C9_Witness ==
    /\ unlinks = 1
    /\ \E c \in Conns : appended[c] # <<>>

\* C10: the shutdown flag starts 0, only the signal handler changes it, and
\* once it is 1 no step of any thread resets it.
C10_FlagMonotonic ==
    /\ shutdown_requested = 0
    /\ [][ /\ shutdown_requested = 1 => shutdown_requested' = 1
           /\ shutdown_requested' # shutdown_requested => signals' = signals + 1
         ]_vars

\* the flag is still set after a second request and the whole teardown
C10_Witness ==
    /\ shutdown_requested = 1
    /\ signals = 2
    /\ mpc = "m_exited"

\* the number of timestamp records in a file
RECURSIVE TimestampRecords(_)
TimestampRecords(file) ==
    IF file = <<>> THEN 0
    ELSE (IF Head(file) = TS THEN 1 ELSE 0) + TimestampRecords(Tail(file))

\* no client has connected
Idle == \A c \in Conns : cstate[c] = "new"

\* C11: the timestamp task appends one record each time its interval
\* elapses while the shutdown flag is unset: the log holds one record per
\* elapsed wait, no wait is shorter than the interval, and with no client
\* activity and an initially empty log the log is exactly one timestamp
\* line once the first interval has elapsed and the task waits again (and
\* until the second interval has elapsed).
C11_TimestampPerInterval ==
    /\ tpc \in {"t_wait", "t_done"} => TimestampRecords(log) = fired
    /\ fired * TIMESTAMP_INTERVAL <= now
    /\ (tpc = "t_wait" /\ shutdown_requested = 0) => now <= wake_time
    /\ ( /\ Idle
         /\ shutdown_requested = 0
         /\ tpc = "t_wait"
         /\ now < wake_time
         /\ now >= TIMESTAMP_INTERVAL
         /\ now < 2 * TIMESTAMP_INTERVAL )
       => log = <<TS, NL>>

\* one interval has elapsed with no client: the log is one timestamp line
C11_Witness ==
    /\ Idle
    /\ shutdown_requested = 0
    /\ tpc = "t_wait"
    /\ now = TIMESTAMP_INTERVAL
    /\ fired = 1
    /\ log = <<TS, NL>>

\* the valid entries, read from out_offs up to (not including) in_offs,
\* wrapping, oldest first
ValidEntries ==
    [i \in 1..NumEntries |->
        entry[(out_offs + i - 1) % AESDCHAR_MAX_WRITE_OPERATIONS_SUPPORTED]]

\* the last n elements of a sequence
LastOf(s, n) == SubSeq(s, Len(s) - n + 1, Len(s))

\* C12: after init and k adds the valid entries, read from out_offs up to
\* in_offs, are the last min(k, AESDCHAR_MAX_WRITE_OPERATIONS_SUPPORTED)
\* entries added, oldest first; an add to a full buffer overwrites exactly
\* the oldest entry and advances out_offs by one modulo the capacity.
C12_RingHoldsLastEntries ==
    /\ [](ValidEntries =
            LastOf(added, Min(Len(added), AESDCHAR_MAX_WRITE_OPERATIONS_SUPPORTED)))
    /\ [][ (full /\ Len(added') = Len(added) + 1) =>
             /\ out_offs' = (out_offs + 1) % AESDCHAR_MAX_WRITE_OPERATIONS_SUPPORTED
             /\ \A i \in Offsets : i # out_offs => entry'[i] = entry[i]
             /\ entry'[out_offs] = added'[Len(added')]
             /\ full'
         ]_vars

\* the buffer has wrapped: more adds than its capacity, out_offs moved
C12_Witness ==
    /\ Len(added) = AESDCHAR_MAX_WRITE_OPERATIONS_SUPPORTED + 2
    /\ full
    /\ out_offs = 2
    /\ ValidEntries = LastOf(added, AESDCHAR_MAX_WRITE_OPERATIONS_SUPPORTED)

\* the sum of the sizes of the first n entries of a sequence of entries
RECURSIVE SizeOf(_, _)
SizeOf(es, n) == IF n = 0 THEN 0 ELSE SizeOf(es, n - 1) + es[n].size

TotalSize == SizeOf(ValidEntries, NumEntries)

\* C13: find_entry_offset_for_fpos returns the entry e and the byte offset
\* o with (sizes of the valid entries older than e) + o = char_offset and
\* o < e.size; it returns NULL exactly when char_offset is at or beyond the
\* total size of the valid entries (also when the buffer is empty).
C13_FindLocatesOffset ==
    find_offset # NoFind =>
        /\ find_rtn = NULL <=> find_offset >= TotalSize
        /\ find_rtn # NULL =>
               \E j \in 1..NumEntries :
                   /\ find_rtn = (out_offs + j - 1)
                                    % AESDCHAR_MAX_WRITE_OPERATIONS_SUPPORTED
                   /\ SizeOf(ValidEntries, j - 1) + entry_offset_byte_rtn
                          = find_offset
                   /\ entry_offset_byte_rtn < entry[find_rtn].size

\* an offset inside the newest entry of a wrapped buffer was found
C13_Witness ==
    /\ find_offset # NoFind
    /\ Len(added) > AESDCHAR_MAX_WRITE_OPERATIONS_SUPPORTED
    /\ find_rtn # NULL
    /\ find_rtn = (out_offs + NumEntries - 1)
                     % AESDCHAR_MAX_WRITE_OPERATIONS_SUPPORTED
    /\ find_rtn < out_offs
    /\ entry_offset_byte_rtn = 1
    /\ find_offset = TotalSize - 1

\* C14: *entry_offset_byte_rtn is set only when a matching char_offset is
\* found; when the function returns NULL the caller's value is unchanged.
C14_ByteRtnUnchangedOnNull ==
    (find_offset # NoFind /\ find_rtn = NULL) =>
        entry_offset_byte_rtn = stale_byte_rtn

\* the main thread waits in pthread_join for handler c while holding
\* threads_mutex, and c waits for threads_mutex in unregister_thread
JoinDeadlock(c) ==
    /\ mpc = "m_join"
    /\ threads_mutex = MainThread
    /\ wi < MAX_CONCURRENT_THREADS
    /\ thread_pool[wi].active
    /\ thread_pool[wi].thread = c
    /\ hpc[c] = "h_unreg"

\* C15: after a termination request, with every connected client closing
\* its connection, the join of the handlers by the main thread and the
\* deregistration of an exiting handler never wait on each other: no
\* reachable state is a deadlock between the main thread and a handler.
C15_NoJoinDeadlock ==
    (shutdown_requested = 1 /\ \A d \in Conns : cstate[d] # "open") =>
        \A c \in Conns : ~JoinDeadlock(c)

\* C16: neither lock is held while its holder is blocked on a network
\* operation or on another thread: no handler is in send to its client
\* holding file_mutex, and the main thread does not wait in pthread_join
\* for a running handler holding threads_mutex.
C16_NoLockAcrossSuspension ==
    /\ \A c \in Conns : hpc[c] = "r_send" => file_mutex # c
    /\ ( /\ mpc = "m_join"
         /\ wi < MAX_CONCURRENT_THREADS
         /\ thread_pool[wi].active
         /\ hpc[thread_pool[wi].thread] # "h_done" )
       => threads_mutex # MainThread

\* C17: when sending the log to the client fails the handler closes the
\* connection: the failed reply is its last, no packet is appended after it
\* and the handler is on its exit path.
C17_SendFailureCloses ==
    \A c \in Conns : \A i \in 1..Len(replies[c]) :
        replies[c][i].st = "err" =>
            /\ i = Len(replies[c])
            /\ Len(appended[c]) = i
            /\ hpc[c] \in {"h_close", "h_unreg", "h_done"}

\* a is b with some of its elements left out
RECURSIVE IsSubSeq(_, _)
IsSubSeq(a, b) ==
    IF a = <<>> THEN TRUE
    ELSE IF b = <<>> THEN FALSE
    ELSE IF Head(a) = Head(b) THEN IsSubSeq(Tail(a), Tail(b))
    ELSE IsSubSeq(a, Tail(b))

\* the append of a packet of connection c has failed (and no send has)
AppendFailed(c) == fail[c] /\ AllRepliesOk(c)

\* C18: when the append of a completed packet fails, no reply is sent for
\* it, it is not retried, the accumulation is reset and the connection
\* stays open: every other complete packet of the connection, also the
\* later ones, is appended whole and replied to, so the appended packets
\* are the packets of the stream without one packet per failed append.
C18_AppendFailureDropsPacket ==
    \A c \in Conns :
        ( /\ AppendFailed(c) /\ NoOtherWriter(c)
          /\ shutdown_requested = 0 /\ ~Oversize(sent[c]) ) =>
            /\ hpc[c] \in {"h_inner", "h_loop", "h_recv"} =>
                   fd_open[c] /\ NewlinePos(packet_buffer[c]) = 0
            /\ Len(replies[c]) <= Len(appended[c])
            /\ Quiescent(c) =>
                   /\ IsSubSeq(AppendedPackets(c), Accepted(sent[c]))
                   /\ Len(appended[c]) = Len(Accepted(sent[c])) - faults
                   /\ Len(replies[c]) = Len(appended[c])
                   /\ cstate[c] = "open" => hpc[c] = "h_recv" /\ fd_open[c]

\* the append of the first packet failed; the second was appended and
\* replied to on the same, still open, connection
C18_Witness ==
    \E c \in Conns :
        /\ AppendFailed(c)
        /\ faults = 1
        /\ shutdown_requested = 0
        /\ Len(Accepted(sent[c])) = 2
        /\ AppendedPackets(c) = Tail(Accepted(sent[c]))
        /\ Len(replies[c]) = 1
        /\ hpc[c] = "h_recv"
        /\ cstate[c] = "open"
        /\ fd_open[c]

\* handlers that have started and not yet finished
LiveHandlers == {c \in Conns : hpc[c] \notin {"h_none", "h_done"}}

\* C19: a registry entry is active only for a handler that has started and
\* not yet finished: once a handler has finished, outside of shutdown, the
\* registry holds no active entry for it and active_thread_count does not
\* count it.
C19_RegistryTracksLiveHandlers ==
    shutdown_requested = 0 =>
        /\ \A c \in Conns : hpc[c] = "h_done" => OwnSlots(c) = {}
        /\ active_thread_count <= Cardinality(LiveHandlers)

\* C20: the packets a handler appends depend only on the byte stream, not
\* on its split into receive chunks: whatever the chunks, the appended
\* packets are the stream cut after each newline, in order, each appended
\* once and whole, and trailing bytes with no newline are never appended.
C20_ChunkingIndependent ==
    \A c \in Conns :
        (Clean(c) /\ NoOtherWriter(c) /\ ~rejected[c]) =>
            /\ \A i \in 1..Len(appended[c]) : IsPacket(appended[c][i].pkt)
            /\ IsPrefix(AppendedPackets(c), Accepted(sent[c]))
            /\ hpc[c] \in {"h_loop", "h_recv", "h_inner"} =>
                   Flat(AppendedPackets(c)) \o packet_buffer[c]
                       \o recv_buffer[c] \o sock[c] = sent[c]
            /\ Quiescent(c) =>
                   /\ AppendedPackets(c) = Accepted(sent[c])
                   /\ log = Flat(Accepted(sent[c]))
                   /\ IsPrefix(log, sent[c])
                   /\ NewlinePos(Drop(sent[c], Len(log))) = 0

\* a packet that spanned chunks was appended, then a packet whose chunk
\* holds the next packet as well
C20_Witness ==
    \E c \in Conns :
        /\ Clean(c)
        /\ hpc[c] = "h_inner"
        /\ Len(appended[c]) = 2
        /\ Len(appended[c][1].pkt) = RECV_BUFFER_SIZE
        /\ appended[c][2].pkt = <<NL>>
        /\ recv_buffer[c] = <<NL>>
        /\ packet_buffer[c] = <<>>

\* the bytes handler c has received from its socket
Received(c) == Prefix(sent[c], Len(sent[c]) - Len(sock[c]))

\* C21: no data is lost at shutdown: every complete packet contained in the
\* bytes a handler has received is appended to the log before the handler
\* terminates, also when the termination request arrives while the handler
\* is processing the received chunk.
C21_NoDataLossAtShutdown ==
    \A c \in Conns :
        (hpc[c] = "h_done" /\ ~fail[c] /\ ~rejected[c]) =>
            AppendedPackets(c) = Accepted(Received(c))

\* C22: on every path by which a handler terminates (peer closed, receive
\* error, shutdown, packet size exceeded, allocation or growth failure) it
\* closes its client socket exactly once and deregisters itself before
\* returning: it returns only from unregister_thread, with the socket
\* closed by one call of close and no registry entry of its own left.
C22_ExitClosesOnceAndDeregisters ==
    /\ [](\A c \in Conns :
            /\ close_calls[c] <= 1
            /\ hpc[c] \in {"h_unreg", "h_done"} =>
                   close_calls[c] = 1 /\ ~fd_open[c]
            /\ hpc[c] \notin {"h_none", "h_unreg", "h_done"} =>
                   close_calls[c] = 0 /\ fd_open[c])
    /\ [][ \A c \in Conns :
             (hpc[c] # "h_done" /\ hpc'[c] = "h_done") =>
                 /\ hpc[c] = "h_unreg"
                 /\ close_calls[c] = 1
                 /\ \A i \in Slots :
                        ~(thread_pool'[i].active /\ thread_pool'[i].thread = c)
         ]_vars

\* a handler has returned after realloc failed: its client still connected,
\* no termination request, the buffer never grown
C22_Witness ==
    \E c \in Conns :
        /\ hpc[c] = "h_done"
        /\ fail[c]
        /\ ~rejected[c]
        /\ shutdown_requested = 0
        /\ cstate[c] = "open"
        /\ Len(Received(c)) > RECV_BUFFER_SIZE
        /\ buffer_capacity[c] = RECV_BUFFER_SIZE
        /\ close_calls[c] = 1
        /\ ~fd_open[c]
        /\ OwnSlots(c) = {}

\* C23: the accept loop is left, and teardown run, when accept fails
\* fatally: an interrupted accept with the shutdown flag set leaves the
\* loop, a transient failure retries, and a fatal failure leaves the loop
\* even though no termination request was made.
C23_FatalAcceptLeavesLoop ==
    [][ (mpc = "m_accept" /\ mpc' # "m_accept") =>
          \/ mpc' = "m_create"
          \/ signals' # signals /\ mpc' = "m_wait"
          \/ faults' # faults /\ mpc' \in TeardownPcs
          \/ faults' = faults /\ signals' = signals /\ mpc' = "m_loop"
      ]_vars

\* C24: the handler threads alive at the same time never exceed
\* MAX_CONCURRENT_THREADS: main calls accept only after it has seen
\* active_thread_count < MAX_CONCURRENT_THREADS, and with a full pool it
\* polls without accepting, still observing the shutdown flag.
C24_PoolBound ==
    /\ Cardinality(LiveHandlers) <= MAX_CONCURRENT_THREADS
    /\ mpc \in {"m_accept", "m_create"} =>
           /\ active_thread_count < MAX_CONCURRENT_THREADS
           /\ Cardinality(LiveHandlers) < MAX_CONCURRENT_THREADS
    /\ Cardinality(LiveHandlers) <=
           active_thread_count + (IF mpc = "m_register" THEN 1 ELSE 0)

\* the pool is full, a further client is not accepted, and main has left
\* its polling at the termination request
C24_Witness ==
    /\ Cardinality(LiveHandlers) = MAX_CONCURRENT_THREADS
    /\ active_thread_count = MAX_CONCURRENT_THREADS
    /\ \E c \in Conns : cstate[c] = "new"
    /\ shutdown_requested = 1
    /\ mpc = "m_wait"

\* C25: the log is append-only between its creation and teardown: every
\* log state is a prefix of every later one, so every reply a client has
\* received is a prefix of the log at any later time before the file is
\* deleted.
C25_LogAppendOnly ==
    /\ [][unlinks' = unlinks => IsPrefix(log, log')]_vars
    /\ [](unlinks = 0 =>
            \A c \in Conns : \A i \in 1..Len(replies[c]) :
                IsPrefix(replies[c][i].data, log))

\* a completed reply, and a log that has grown since by another client's
\* different packet
C25_Witness ==
    \E c, d \in Conns :
        /\ c # d
        /\ unlinks = 0
        /\ Len(replies[c]) = 1
        /\ replies[c][1].st = "ok"
        /\ replies[c][1].data = <<c, NL>>
        /\ log = <<c, NL, d, NL>>

\* the documented states of the ring buffer
RingEmpty == in_offs = out_offs /\ ~full

RingFull == in_offs = out_offs /\ full

RingPartial == in_offs # out_offs /\ ~full

\* C26: after init and any adds exactly one of the documented states holds
\* (empty, full, partial), in_offs and out_offs stay within 0..capacity-1,
\* and full holds exactly when at least capacity entries have been added.
C26_RingStates ==
    /\ Cardinality({s \in {"empty", "full", "partial"} :
           \/ s = "empty" /\ RingEmpty
           \/ s = "full" /\ RingFull
           \/ s = "partial" /\ RingPartial}) = 1
    /\ in_offs \in Offsets
    /\ out_offs \in Offsets
    /\ full <=> Len(added) >= AESDCHAR_MAX_WRITE_OPERATIONS_SUPPORTED
    /\ RingEmpty <=> added = <<>>

\* the buffer stays full after an overwrite, both offsets off 0
C26_Witness ==
    /\ RingFull
    /\ Len(added) = AESDCHAR_MAX_WRITE_OPERATIONS_SUPPORTED + 1
    /\ in_offs = 1
    /\ out_offs = 1

\* C27: a failed append (open failure, write error, short write) leaves the
\* log as it was, so the log is at every moment a concatenation of
\* complete packets.
C27_FailedAppendLeavesLog ==
    /\ [][\A c \in Conns :
              (hpc[c] = "w_in" /\ faults' # faults) => log' = log]_vars
    /\ [](\A i \in 1..Len(Pieces(log)) : IsPacket(Pieces(log)[i]))

\* a capacity the growth step can produce: the initial size doubled some
\* number of times, or the cap
GrownCapacity(cap) ==
    \/ cap = MAX_PACKET_SIZE
    \/ \E k \in 0..MAX_PACKET_SIZE : cap = RECV_BUFFER_SIZE * 2^k

\* C28: at every copy into the accumulation buffer packet_size + chunk_size
\* is at most buffer_capacity, which is at most MAX_PACKET_SIZE; the
\* capacity starts at RECV_BUFFER_SIZE, never decreases during a connection
\* and is RECV_BUFFER_SIZE times a power of two or exactly MAX_PACKET_SIZE.
C28_CapacityBounds ==
    /\ [](\A c \in Conns :
            /\ Len(packet_buffer[c]) <= buffer_capacity[c]
            /\ buffer_capacity[c] <= MAX_PACKET_SIZE
            /\ GrownCapacity(buffer_capacity[c])
            /\ hpc[c] \in {"h_none", "h_start"} =>
                   buffer_capacity[c] = RECV_BUFFER_SIZE)
    /\ [][ \A c \in Conns :
             /\ buffer_capacity'[c] >= buffer_capacity[c]
             /\ (hpc[c] = "h_inner" /\ packet_buffer'[c] # packet_buffer[c]
                   /\ packet_buffer'[c] # <<>>) =>
                    /\ Len(packet_buffer[c]) + ChunkSize(recv_buffer[c])
                           <= buffer_capacity'[c]
                    /\ Len(packet_buffer'[c])
                           = Len(packet_buffer[c]) + ChunkSize(recv_buffer[c])
         ]_vars

\* a packet of exactly MAX_PACKET_SIZE bytes fills the buffer grown to the cap
C28_Witness ==
    \E c \in Conns :
        /\ buffer_capacity[c] = MAX_PACKET_SIZE
        /\ Len(packet_buffer[c]) = MAX_PACKET_SIZE
        /\ IsPacket(packet_buffer[c])
        /\ hpc[c] = "h_write"

\* the slots of the registry marked active
ActiveSlots == {i \in Slots : thread_pool[i].active}

\* C29: whenever the registry lock is free, active_thread_count is the
\* number of active slots and lies in 0..MAX_CONCURRENT_THREADS, under any
\* interleaving of register_thread, unregister_thread and
\* wait_for_all_threads, also when a thread that was never registered
\* unregisters.
C29_CountMatchesSlots ==
    threads_mutex = NoThread =>
        /\ active_thread_count = Cardinality(ActiveSlots)
        /\ active_thread_count \in 0..MAX_CONCURRENT_THREADS

\* a handler unregistered before main had registered it: its slot was set
\* afterwards and counted, while another handler is registered too
C29_Witness ==
    \E c \in Conns :
        /\ hpc[c] = "h_done"
        /\ OwnSlots(c) # {}
        /\ threads_mutex = NoThread
        /\ active_thread_count = MAX_CONCURRENT_THREADS
        /\ Cardinality(ActiveSlots) = MAX_CONCURRENT_THREADS

====
